---------------------------- MODULE Spec2Model ----------------------------
(***************************************************************************)
(* Model of the `nomad action` command (command/action.go): the flag       *)
(* validation and target resolution of ActionCommand.Run, and the session  *)
(* set-up, escape callback, signal bridge and deferred clean-ups of        *)
(* ActionCommand.execImpl.  The helpers execImpl calls but which are not    *)
(* part of the file (setRawTerminal, watchTerminalSize, escapingio,         *)
(* Jobs().ActionExec, the allocation look-ups) are modelled from their      *)
(* documented contracts.                                                    *)
(*                                                                          *)
(* Strings whose length or prefix matters are sequences of one-character    *)
(* strings: <<"n","o","n","e">> is the flag value none, <<>> is "".         *)
(***************************************************************************)
EXTENDS Integers, Sequences, FiniteSets, TLC

\* ------------------------------------------------------------------ bounds
MaxReads == 2          \* reads of local stdin per session
MaxChunk == 2          \* bytes returned by one read
MaxSignals == 1        \* interrupt/terminate signals delivered to the process
MaxResizes == 2        \* changes of the terminal's size while the process runs
MaxArgs == 2           \* elements of an Action's Args
MaxInput == 3          \* bytes of the input the escape reader is applied to

\* --------------------------------------------------------------- constants
None == <<"n", "o", "n", "e">>      \* the literal -e value that disables escaping
Empty == <<>>                        \* the empty string
Dot == "."                           \* the byte the escape callback acts on
NL == "\n"
Bytes == {"~", Dot, NL}              \* bytes a read of stdin can deliver
EscapeValues == {Empty, None, <<"~">>, <<Dot>>, <<"~", "~">>}
ExitCodes == {0, 2}                  \* exit codes the remote command reports
SizeChCap_Unbuffered == 1 - 1
SizeChCap == 1                       \* capacity of execImpl's sizeCh (line 259)
SetupFailCode == 0 - 1               \* execImpl's code when a set-up step fails
InterruptedCode == 0 - 2             \* ActionExec's code when cancelled before Exited

\* The cluster the external look-ups answer from: allocation id, job, group, tasks.
Allocs ==
  { [ID |-> <<"a", "b", "1", "2">>, Job |-> "web", Group |-> "api", Tasks |-> {"server"}],
    [ID |-> <<"a", "b", "7", "8">>, Job |-> "web", Group |-> "db", Tasks |-> {"server", "sidecar"}],
    [ID |-> <<"c", "d", "3", "4">>, Job |-> "web", Group |-> "db", Tasks |-> {"server"}] }
NoAlloc == [ID |-> Empty, Job |-> "", Group |-> "", Tasks |-> {}]

JobValues == {"", "web"}
GroupValues == {"", "api", "db"}
TaskValues == {"", "server", "bogus"}
AllocationValues ==
  {Empty, <<"a", "b">>, <<"a", "b", "1", "2">>, <<"a", "b", "7", "8">>, <<"z", "z">>}
ArgsValues == {<<>>, <<"ping">>}

\* ---------------------------------------------------------- error messages
ErrParse == "Error parsing flags"
ErrNoAction == "An action name is required"
ErrNoJob == "A job ID is required"
ErrTtyNoStdin == "-i must be enabled if running with tty"
ErrEscape == "-e requires 'none' or a single character"
ErrClient == "Error initializing client"
ErrNoGroup == "A group name is required if no allocation is provided"
ErrNoTask == "A task name is required if no allocation is provided"
ErrJobPrefix == "job prefix lookup failed"
ErrFetchAllocs == "Error fetching allocations"
ErrQueryAlloc == "Error querying allocation"
ErrNoAllocFound == "No allocation(s) with prefix or id found"
ErrMultiAlloc == "Prefix matched multiple allocations"
ErrTask == "task resolution failed"
ErrExec == "failed to exec into task"
ValidationErrors == {ErrParse, ErrNoAction, ErrNoJob, ErrTtyNoStdin, ErrEscape}

VARIABLES
  \* ---- the invocation: flags and arguments as given (never modified)
  parseOK,        \* flags.Parse succeeded
  args,           \* positional arguments
  job, group, allocation,
  taskFlag,       \* -task as given
  stdinOpt,       \* -i
  ttyOpt,         \* -t
  eFlag,          \* -e as given
  stdinGiven,     \* l.Stdin was set by the caller of Run
  \* ---- Run's locals and results
  pc,             \* position of the main task in Run / execImpl
  escapeChar,     \* Run's escapeChar after line 148-150
  task,           \* Run's task after line 218-222
  alloc,          \* the allocation Run resolved
  stdinSrc,       \* what l.Stdin is: "nil", "caller" (set by the caller of Run),
                  \* "empty" (bytes.NewReader(nil)), "os" (os.Stdin)
  uiErr,          \* messages printed with l.Ui.Error, in order
  listed,         \* the allocations formatAllocListStubs put in a message
  ret,            \* <<v>> once Run has returned v, <<>> before
  \* ---- execImpl
  session,        \* what ActionExec was called with (NoSession before the call)
  cancelled,      \* ctx is cancelled
  cancelBy,       \* who cancelled ctx first
  defers,         \* execImpl's stack of deferred calls
  execRes,        \* execImpl's (code, err) once decided
  closedBy,       \* what made ActionExec return
  scanning,       \* stdin is wrapped by escapingio.NewReader
  \* ---- terminal and watcher
  inMode, outMode,          \* "cooked" or "raw"
  inEntered, outEntered,    \* raw mode was entered on the device
  watching,                 \* the resize watcher is registered
  watched,                  \* the resize watcher was registered at some point
  inRestores, outRestores, sizeStops,   \* calls of inCleanup, outCleanup, sizeCleanup
  setupErr,       \* why a set-up step failed: "none", "notatty", "other"
  \* ---- stdin reader task and escape callback
  reads,          \* reads of stdin done
  rbuf,           \* bytes of the current read not yet scanned
  look,           \* scanner state: "line" (start of line), "esc", "mid"
  cb,             \* position inside the escape callback
  cbCalls,        \* invocations of the callback with '.'
  notices,        \* "Connection closed" notices written to stderr
  verbatim,       \* every read so far gave ActionExec exactly the bytes it read
  \* ---- signals and remote side
  notifyOn,       \* signal.Notify registered signalCh
  signalCh,       \* signals buffered in signalCh (capacity 1)
  signals,        \* signals delivered to the process so far
  remote,         \* terminal frame received from the remote side (NoFrame before)
  \* ---- the session's local output streams
  stdoutWriters,  \* the tasks that have written to l.Stdout
  stderrWriters,  \* the tasks that have written to l.Stderr
  \* ---- terminal size, resize watcher and sizeCh
  termSize,       \* the terminal's size: the n-th size it has had
  sizeCh,         \* the sizes buffered in sizeCh, oldest first
  sizePending,    \* the watcher has a change of size to handle
  sizeSeen,       \* the last size ActionExec took from sizeCh (0: none)
  sizeDrops,      \* sizes the watcher could not put in sizeCh
  \* ---- the escape reader applied to one input
  scanEsc,        \* the escape character the reader was made with
  scanInput,      \* the bytes of the underlying stream
  scanPos,        \* how many of them have been read
  scanCuts,       \* the sizes of the reads done, in order
  scanLook,       \* scanner state, as look
  scanOut,        \* the bytes delivered downstream, in order
  scanAborts,     \* invocations of the callback that returned true
  \* ---- structs.Action values (nomad/structs/actions.go)
  actObjs,        \* the Action structs allocated, by address (1, 2, ...)
  actArrs,        \* the backing arrays of their Args, by address
  actA, actB,     \* two *Action: an address, or NilPtr
  actCopy,        \* the *Action actA.Copy() returned, NotCopied before the call
  actOrig,        \* the elements of actA's Args before anything was done
  actMutated      \* an element of the copy's Args was assigned

inputVars == <<parseOK, args, job, group, allocation, taskFlag, stdinOpt, ttyOpt, eFlag,
               stdinGiven>>
runVars == <<escapeChar, task, alloc, stdinSrc, uiErr, listed, ret>>
execVars == <<session, cancelled, cancelBy, defers, execRes, closedBy, scanning>>
termVars == <<inMode, outMode, inEntered, outEntered, watching, watched,
              inRestores, outRestores, sizeStops, setupErr>>
readerVars == <<reads, rbuf, look, cb, cbCalls, notices, verbatim>>
envVars == <<notifyOn, signalCh, signals, remote>>
ioVars == <<stdoutWriters, stderrWriters>>
sizeVars == <<termSize, sizeCh, sizePending, sizeSeen, sizeDrops>>
scanVars == <<scanEsc, scanInput, scanPos, scanCuts, scanLook, scanOut, scanAborts>>
actVars == <<actObjs, actArrs, actA, actB, actCopy, actOrig, actMutated>>
libVars == <<scanVars, actVars>>
progVars == <<inputVars, pc, runVars, execVars, termVars, readerVars, envVars, ioVars>>
vars == <<progVars, sizeVars, libVars>>

NoRes == [code |-> 0, err |-> "unset"]
NoSession == [open |-> FALSE, alloc |-> Empty, task |-> "", tty |-> FALSE, action |-> ""]
NoFrame == [kind |-> "none", code |-> 0]

\* No input has been given to the escape reader.
ScanIdle ==
  /\ scanEsc = "~" /\ scanInput = <<>> /\ scanPos = 0 /\ scanCuts = <<>>
  /\ scanLook = "line" /\ scanOut = <<>> /\ scanAborts = 0

\* The program when Run is entered: any invocation, nothing done yet.
RunInit ==
  /\ parseOK \in BOOLEAN
  /\ args \in ArgsValues
  /\ job \in JobValues
  /\ group \in GroupValues
  /\ allocation \in AllocationValues
  /\ taskFlag \in TaskValues
  /\ stdinOpt \in BOOLEAN
  /\ ttyOpt \in BOOLEAN
  /\ eFlag \in EscapeValues
  /\ stdinGiven \in BOOLEAN
  /\ pc = "Run"
  /\ escapeChar = eFlag
  /\ task = taskFlag
  /\ alloc = NoAlloc
  /\ stdinSrc = IF stdinGiven THEN "caller" ELSE "nil"
  /\ uiErr = <<>>
  /\ listed = {}
  /\ ret = <<>>
  /\ session = NoSession
  /\ cancelled = FALSE
  /\ cancelBy = "none"
  /\ defers = <<>>
  /\ execRes = NoRes
  /\ closedBy = "none"
  /\ scanning = FALSE
  /\ inMode = "cooked" /\ outMode = "cooked"
  /\ inEntered = FALSE /\ outEntered = FALSE
  /\ watching = FALSE /\ watched = FALSE
  /\ inRestores = 0 /\ outRestores = 0 /\ sizeStops = 0
  /\ setupErr = "none"
  /\ reads = 0 /\ rbuf = <<>> /\ look = "line" /\ cb = "idle"
  /\ cbCalls = 0 /\ notices = 0 /\ verbatim = TRUE
  /\ notifyOn = FALSE /\ signalCh = 0 /\ signals = 0
  /\ remote = NoFrame
  /\ stdoutWriters = {} /\ stderrWriters = {}
  /\ termSize = 1 /\ sizeCh = <<>> /\ sizePending = FALSE
  /\ sizeSeen = 0 /\ sizeDrops = 0

\* nil, and the value of actCopy before Copy is called.
NilPtr == 0
NotCopied == 0 - 1

\* No Action has been made.
ActIdle ==
  /\ actObjs = <<>> /\ actArrs = <<>> /\ actA = NilPtr /\ actB = NilPtr
  /\ actCopy = NotCopied /\ actOrig = <<>> /\ actMutated = FALSE

\* The command is run from the command line: l.Stdin is not set.
Init == RunInit /\ ~stdinGiven /\ ScanIdle /\ ActIdle

\* Run prints msg with l.Ui.Error and returns 1.
Fail(msg) ==
  /\ uiErr' = Append(uiErr, msg)
  /\ ret' = <<1>>
  /\ pc' = "done"

\* -e handling of Run: none becomes the empty string.
NormalizeEscape(e) == IF e = None THEN Empty ELSE e

\* The first validation of Run that fails, or "ok".
ValidateFlags_NoTtyCheck ==
  IF ~parseOK THEN ErrParse
  ELSE IF Len(args) < 1 THEN ErrNoAction
  ELSE IF job = "" THEN ErrNoJob
  ELSE IF Len(NormalizeEscape(eFlag)) > 1 THEN ErrEscape
  ELSE "ok"

ValidateFlags ==
  IF ~parseOK THEN ErrParse
  ELSE IF Len(args) < 1 THEN ErrNoAction
  ELSE IF job = "" THEN ErrNoJob
  ELSE IF ttyOpt /\ ~stdinOpt THEN ErrTtyNoStdin
  ELSE IF Len(NormalizeEscape(eFlag)) > 1 THEN ErrEscape
  ELSE "ok"

\* Run, lines 126-155: flag parsing and validation.
RunValidate ==
  /\ pc = "Run"
  /\ IF ValidateFlags # "ok"
       THEN /\ Fail(ValidateFlags)
            /\ escapeChar' = IF ValidateFlags = ErrEscape
                               THEN NormalizeEscape(eFlag) ELSE escapeChar
       ELSE /\ escapeChar' = NormalizeEscape(eFlag)
            /\ pc' = "resolve"
            /\ UNCHANGED <<uiErr, ret>>
  /\ UNCHANGED <<libVars, sizeVars, inputVars, ioVars, listed, task, alloc, stdinSrc, execVars, termVars, readerVars, envVars>>

\* p is a prefix of s.
IsPrefix(p, s) == Len(p) <= Len(s) /\ \A i \in 1..Len(p) : p[i] = s[i]

\* client.Allocations().PrefixList: the allocations whose ID starts with prefix.
\* (Prefixes of the model have even length, which sanitizeUUIDPrefix keeps.)
PrefixList(prefix) == {a \in Allocs : IsPrefix(prefix, a.ID)}

\* getRandomJobAlloc: the allocations of the job that belong to the group.
JobAllocs(j, g) == {a \in Allocs : a.Job = j /\ a.Group = g}

\* validateTaskExistsInAllocation: the named task is one of the allocation's.
validateTaskExistsInAllocation(t, a) == t \in a.Tasks

\* lookupAllocTask: the allocation's task when it has exactly one, else an error.
lookupAllocTask(a) ==
  IF Cardinality(a.Tasks) = 1 THEN CHOOSE t \in a.Tasks : TRUE ELSE ""

\* Run, lines 157-209: the first step of the choice of the allocation that
\* fails, or "ok".  rpc is whether the client and its queries succeed.
AllocStubError_NoTaskCheck(rpc) ==
  IF rpc = "client" THEN ErrClient
  ELSE IF allocation = Empty THEN
    IF group = "" THEN ErrNoGroup
    ELSE IF rpc = "query" THEN ErrJobPrefix
    ELSE IF JobAllocs(job, group) = {} THEN ErrFetchAllocs
    ELSE "ok"
  ELSE
    IF rpc = "query" THEN ErrQueryAlloc
    ELSE IF Cardinality(PrefixList(allocation)) = 0 THEN ErrNoAllocFound
    ELSE IF Cardinality(PrefixList(allocation)) > 1 THEN ErrMultiAlloc
    ELSE "ok"

AllocStubError_FirstMatch(rpc) ==
  IF rpc = "client" THEN ErrClient
  ELSE IF allocation = Empty THEN
    IF group = "" THEN ErrNoGroup
    ELSE IF task = "" THEN ErrNoTask
    ELSE IF rpc = "query" THEN ErrJobPrefix
    ELSE IF JobAllocs(job, group) = {} THEN ErrFetchAllocs
    ELSE "ok"
  ELSE
    IF rpc = "query" THEN ErrQueryAlloc
    ELSE IF Cardinality(PrefixList(allocation)) = 0 THEN ErrNoAllocFound
    ELSE "ok"

AllocStubError(rpc) ==
  IF rpc = "client" THEN ErrClient
  ELSE IF allocation = Empty THEN
    IF group = "" THEN ErrNoGroup
    ELSE IF task = "" THEN ErrNoTask
    ELSE IF rpc = "query" THEN ErrJobPrefix
    ELSE IF JobAllocs(job, group) = {} THEN ErrFetchAllocs
    ELSE "ok"
  ELSE
    IF rpc = "query" THEN ErrQueryAlloc
    ELSE IF Cardinality(PrefixList(allocation)) = 0 THEN ErrNoAllocFound
    ELSE IF Cardinality(PrefixList(allocation)) > 1 THEN ErrMultiAlloc
    ELSE "ok"

\* Run, lines 157-209: client set-up and choice of the allocation: a random
\* allocation of the job's group, or the one allocation the prefix matches.
RunAllocStub ==
  /\ pc = "resolve"
  /\ \E rpc \in {"ok", "client", "query"} :
       IF AllocStubError(rpc) # "ok"
         THEN /\ Fail(AllocStubError(rpc))
              /\ listed' = IF AllocStubError(rpc) = ErrMultiAlloc
                             THEN {a.ID : a \in PrefixList(allocation)} ELSE listed
              /\ UNCHANGED alloc
         ELSE /\ \E a \in (IF allocation = Empty THEN JobAllocs(job, group)
                                                 ELSE PrefixList(allocation)) :
                   alloc' = a
              /\ pc' = "info"
              /\ UNCHANGED <<uiErr, listed, ret>>
  /\ UNCHANGED <<libVars, sizeVars, inputVars, ioVars, escapeChar, task, stdinSrc, execVars, termVars, readerVars, envVars>>

\* Run, lines 211-226: allocation info and choice of the task.
RunTask_NoValidate ==
  /\ pc = "info"
  /\ \E rpc \in {"ok", "query"} :
       IF rpc = "query" THEN Fail(ErrQueryAlloc) /\ UNCHANGED task
       ELSE IF task # "" THEN
         pc' = "streams" /\ UNCHANGED <<task, uiErr, ret>>
       ELSE
         IF lookupAllocTask(alloc) # ""
           THEN /\ task' = lookupAllocTask(alloc)
                /\ pc' = "streams"
                /\ UNCHANGED <<uiErr, ret>>
           ELSE Fail(ErrTask) /\ UNCHANGED task
  /\ UNCHANGED <<libVars, sizeVars, inputVars, ioVars, listed, escapeChar, alloc, stdinSrc, execVars, termVars, readerVars, envVars>>

RunTask ==
  /\ pc = "info"
  /\ \E rpc \in {"ok", "query"} :
       IF rpc = "query" THEN Fail(ErrQueryAlloc) /\ UNCHANGED task
       ELSE IF task # "" THEN
         IF validateTaskExistsInAllocation(task, alloc)
           THEN pc' = "streams" /\ UNCHANGED <<task, uiErr, ret>>
           ELSE Fail(ErrTask) /\ UNCHANGED task
       ELSE
         IF lookupAllocTask(alloc) # ""
           THEN /\ task' = lookupAllocTask(alloc)
                /\ pc' = "streams"
                /\ UNCHANGED <<uiErr, ret>>
           ELSE Fail(ErrTask) /\ UNCHANGED task
  /\ UNCHANGED <<libVars, sizeVars, inputVars, ioVars, listed, escapeChar, alloc, stdinSrc, execVars, termVars, readerVars, envVars>>

\* Run, lines 228-246: the streams of the session, then the call of execImpl
\* (lines 259-262: the size channel, ctx and the deferred cancelFn).
RunStreams_KeepStdin ==
  /\ pc = "streams"
  /\ stdinSrc' = IF stdinSrc = "nil" THEN "os" ELSE stdinSrc
  /\ defers' = <<"cancelFn">>
  /\ pc' = "execImpl"
  /\ UNCHANGED <<libVars, sizeVars, inputVars, ioVars, listed, escapeChar, task, alloc, uiErr, ret,
                 session, cancelled, cancelBy, execRes, closedBy, scanning,
                 termVars, readerVars, envVars>>

RunStreams ==
  /\ pc = "streams"
  /\ stdinSrc' = IF ~stdinOpt THEN "empty"
                 ELSE IF stdinSrc = "nil" THEN "os" ELSE stdinSrc
  /\ defers' = <<"cancelFn">>
  /\ pc' = "execImpl"
  /\ UNCHANGED <<libVars, sizeVars, inputVars, ioVars, listed, escapeChar, task, alloc, uiErr, ret,
                 session, cancelled, cancelBy, execRes, closedBy, scanning,
                 termVars, readerVars, envVars>>

\* The process is running: Run has not returned and no signal has killed it.
Alive == pc \notin {"done", "killed"}

\* A scoped resource is held: acquired and not yet released.
InHeld == inEntered /\ inRestores = 0
OutHeld == outEntered /\ outRestores = 0
SizeHeld == watching

\* A set-up step of execImpl fails: return -1, err (lines 272, 278, 284).
SetupFail_Degrade(why) ==
  /\ setupErr' = why
  /\ execRes' = execRes
  /\ pc' = "notify"

SetupFail(why) ==
  /\ setupErr' = why
  /\ execRes' = [code |-> SetupFailCode, err |-> "setup"]
  /\ pc' = "unwind"

\* execImpl, lines 264-274: setRawTerminal(stdin) and its deferred inCleanup.
\* The outcome is the device's: raw mode entered, not a terminal, or another
\* failure.
SetRawTerminal_NoDefer ==
  /\ pc = "execImpl"
  /\ IF ttyOpt
       THEN \E outcome \in {"ok", "notatty", "other"} :
              IF stdinSrc = "nil"
                THEN /\ SetupFail("other")
                     /\ UNCHANGED <<inMode, inEntered, defers>>
              ELSE IF outcome = "ok"
                THEN /\ inMode' = "raw"
                     /\ inEntered' = TRUE
                     /\ defers' = defers
                     /\ pc' = "rawOut"
                     /\ UNCHANGED <<setupErr, execRes>>
                ELSE /\ SetupFail(outcome)
                     /\ UNCHANGED <<inMode, inEntered, defers>>
       ELSE /\ pc' = "notify"
            /\ UNCHANGED <<inMode, inEntered, defers, setupErr, execRes>>
  /\ UNCHANGED <<libVars, sizeVars, inputVars, ioVars, runVars, session, cancelled, cancelBy, closedBy, scanning,
                 outMode, outEntered, watching, watched, inRestores, outRestores, sizeStops,
                 readerVars, envVars>>

SetRawTerminal_WrapAlways ==
  /\ pc = "execImpl"
  /\ IF ttyOpt
       THEN \E outcome \in {"ok", "notatty", "other"} :
              IF stdinSrc = "nil"
                THEN /\ SetupFail("other")
                     /\ UNCHANGED <<inMode, inEntered, defers>>
              ELSE IF outcome = "ok"
                THEN /\ inMode' = "raw"
                     /\ inEntered' = TRUE
                     /\ defers' = Append(defers, "inCleanup")
                     /\ pc' = "rawOut"
                     /\ UNCHANGED <<setupErr, execRes>>
                ELSE /\ SetupFail(outcome)
                     /\ UNCHANGED <<inMode, inEntered, defers>>
       ELSE /\ pc' = "wrap"
            /\ UNCHANGED <<inMode, inEntered, defers, setupErr, execRes>>
  /\ UNCHANGED <<libVars, sizeVars, inputVars, ioVars, runVars, session, cancelled, cancelBy, closedBy, scanning,
                 outMode, outEntered, watching, watched, inRestores, outRestores, sizeStops,
                 readerVars, envVars>>

SetRawTerminal ==
  /\ pc = "execImpl"
  /\ IF ttyOpt
       THEN \E outcome \in {"ok", "notatty", "other"} :
              IF stdinSrc = "nil"
                THEN /\ SetupFail("other")
                     /\ UNCHANGED <<inMode, inEntered, defers>>
              ELSE IF outcome = "ok"
                THEN /\ inMode' = "raw"
                     /\ inEntered' = TRUE
                     /\ defers' = Append(defers, "inCleanup")
                     /\ pc' = "rawOut"
                     /\ UNCHANGED <<setupErr, execRes>>
                ELSE /\ SetupFail(outcome)
                     /\ UNCHANGED <<inMode, inEntered, defers>>
       ELSE /\ pc' = "notify"
            /\ UNCHANGED <<inMode, inEntered, defers, setupErr, execRes>>
  /\ UNCHANGED <<libVars, sizeVars, inputVars, ioVars, runVars, session, cancelled, cancelBy, closedBy, scanning,
                 outMode, outEntered, watching, watched, inRestores, outRestores, sizeStops,
                 readerVars, envVars>>

\* execImpl, lines 276-280: setRawTerminalOutput(stdout) and its deferred outCleanup.
SetRawTerminalOutput ==
  /\ pc = "rawOut"
  /\ \E outcome \in {"ok", "notatty", "other"} :
       IF outcome = "ok"
         THEN /\ outMode' = "raw"
              /\ outEntered' = TRUE
              /\ defers' = Append(defers, "outCleanup")
              /\ pc' = "watch"
              /\ UNCHANGED <<setupErr, execRes>>
         ELSE /\ SetupFail(outcome)
              /\ UNCHANGED <<outMode, outEntered, defers>>
  /\ UNCHANGED <<libVars, sizeVars, inputVars, ioVars, runVars, session, cancelled, cancelBy, closedBy, scanning,
                 inMode, inEntered, watching, watched, inRestores, outRestores, sizeStops,
                 readerVars, envVars>>

\* The watcher's non-blocking send of size sz to sizeCh (made with capacity
\* SizeChCap at line 259): sz is dropped when the channel is full.
TrySend(sz) ==
  IF Len(sizeCh) < SizeChCap
    THEN sizeCh' = Append(sizeCh, sz) /\ sizeDrops' = sizeDrops
    ELSE sizeCh' = sizeCh /\ sizeDrops' = sizeDrops + 1

\* execImpl, lines 282-286: watchTerminalSize(stdout, sizeCh) and its deferred
\* sizeCleanup.  stdout is a terminal here (its raw mode was entered), so the
\* only failure left is a registration failure.
\* Once registered the watcher emits the terminal's current size.
WatchTerminalSize ==
  /\ pc = "watch"
  /\ \E outcome \in {"ok", "other"} :
       IF outcome = "ok"
         THEN /\ watching' = TRUE
              /\ watched' = TRUE
              /\ TrySend(termSize)
              /\ defers' = Append(defers, "sizeCleanup")
              /\ pc' = "wrap"
              /\ UNCHANGED <<setupErr, execRes>>
         ELSE /\ SetupFail(outcome)
              /\ UNCHANGED <<watching, watched, defers, sizeCh, sizeDrops>>
  /\ UNCHANGED <<libVars, termSize, sizePending, sizeSeen, inputVars, ioVars, runVars, session, cancelled, cancelBy, closedBy, scanning,
                 inMode, outMode, inEntered, outEntered, inRestores, outRestores, sizeStops,
                 readerVars, envVars>>

\* execImpl, lines 288-304: stdin is wrapped by the escape reader when the
\* escape character is not empty.
WrapStdin ==
  /\ pc = "wrap"
  /\ scanning' = (escapeChar # Empty)
  /\ pc' = "notify"
  /\ UNCHANGED <<libVars, sizeVars, inputVars, ioVars, runVars, session, cancelled, cancelBy, defers, execRes, closedBy,
                 termVars, readerVars, envVars>>

\* execImpl, lines 307-316: signal.Notify, the bridge goroutine, and the call
\* of ActionExec with the session's target.
SignalNotify ==
  /\ pc = "notify"
  /\ notifyOn' = TRUE
  /\ session' = [open |-> TRUE, alloc |-> alloc.ID, task |-> task,
                 tty |-> ttyOpt, action |-> args[1]]
  /\ pc' = "ActionExec"
  /\ UNCHANGED <<libVars, sizeVars, inputVars, ioVars, runVars, cancelled, cancelBy, defers, execRes, closedBy, scanning,
                 termVars, readerVars, signalCh, signals, remote>>

\* The (code, err) pairs ActionExec can return in the current state: the
\* remote terminal frame when one was received, the interrupted code when ctx
\* is cancelled.
ActionExecResults ==
  (IF remote.kind = "exited"
     THEN {[code |-> remote.code, err |-> "nil", by |-> "remote"]} ELSE {})
  \cup
  (IF remote.kind = "error"
     THEN {[code |-> InterruptedCode, err |-> "remote", by |-> "remote"]} ELSE {})
  \cup
  (IF cancelled
     THEN {[code |-> InterruptedCode, err |-> e, by |-> cancelBy] : e \in {"nil", "canceled"}}
     ELSE {})

\* execImpl, line 315: ActionExec returns.
ActionExecReturn ==
  /\ pc = "ActionExec"
  /\ \E r \in ActionExecResults :
       /\ execRes' = [code |-> r.code, err |-> r.err]
       /\ closedBy' = r.by
  /\ pc' = "unwind"
  /\ UNCHANGED <<libVars, sizeVars, inputVars, ioVars, runVars, session, cancelled, cancelBy, defers, scanning,
                 termVars, readerVars, envVars>>

\* The deferred call on top of the stack runs (lines 262, 274, 280, 286).
RunDeferBody_NoSizeStop(d) ==
  /\ cancelled' = IF d = "cancelFn" THEN TRUE ELSE cancelled
  /\ cancelBy' = IF d = "cancelFn" /\ cancelBy = "none" THEN "defer" ELSE cancelBy
  /\ inMode' = IF d = "inCleanup" THEN "cooked" ELSE inMode
  /\ inRestores' = IF d = "inCleanup" THEN inRestores + 1 ELSE inRestores
  /\ outMode' = IF d = "outCleanup" THEN "cooked" ELSE outMode
  /\ outRestores' = IF d = "outCleanup" THEN outRestores + 1 ELSE outRestores
  /\ watching' = watching
  /\ sizeStops' = sizeStops

RunDeferBody(d) ==
  /\ cancelled' = IF d = "cancelFn" THEN TRUE ELSE cancelled
  /\ cancelBy' = IF d = "cancelFn" /\ cancelBy = "none" THEN "defer" ELSE cancelBy
  /\ inMode' = IF d = "inCleanup" THEN "cooked" ELSE inMode
  /\ inRestores' = IF d = "inCleanup" THEN inRestores + 1 ELSE inRestores
  /\ outMode' = IF d = "outCleanup" THEN "cooked" ELSE outMode
  /\ outRestores' = IF d = "outCleanup" THEN outRestores + 1 ELSE outRestores
  /\ watching' = IF d = "sizeCleanup" THEN FALSE ELSE watching
  /\ sizeStops' = IF d = "sizeCleanup" THEN sizeStops + 1 ELSE sizeStops

\* execImpl unwinds: its deferred calls run last-registered first.
RunDefer_Fifo ==
  /\ pc = "unwind"
  /\ defers # <<>>
  /\ RunDeferBody(defers[1])
  /\ defers' = Tail(defers)
  /\ UNCHANGED <<libVars, sizeVars, inputVars, ioVars, pc, runVars, session, execRes, closedBy, scanning,
                 inEntered, outEntered, watched, setupErr, readerVars, envVars>>

RunDefer ==
  /\ pc = "unwind"
  /\ defers # <<>>
  /\ RunDeferBody(defers[Len(defers)])
  /\ defers' = SubSeq(defers, 1, Len(defers) - 1)
  /\ UNCHANGED <<libVars, sizeVars, inputVars, ioVars, pc, runVars, session, execRes, closedBy, scanning,
                 inEntered, outEntered, watched, setupErr, readerVars, envVars>>

\* Run, lines 246-252: execImpl has returned; an error is printed and mapped
\* to 1, a code is returned unchanged.
RunFinishValue_Flatten(res) == IF res.err # "nil" \/ res.code # 0 THEN 1 ELSE 0

RunFinishValue(res) == IF res.err # "nil" THEN 1 ELSE res.code

RunFinish ==
  /\ pc = "unwind"
  /\ defers = <<>>
  /\ uiErr' = IF execRes.err # "nil" THEN Append(uiErr, ErrExec) ELSE uiErr
  /\ ret' = <<RunFinishValue(execRes)>>
  /\ pc' = "done"
  /\ UNCHANGED <<libVars, sizeVars, inputVars, ioVars, listed, escapeChar, task, alloc, stdinSrc, execVars, termVars,
                 readerVars, envVars>>

mainNext ==
  \/ RunValidate \/ RunAllocStub \/ RunTask \/ RunStreams
  \/ SetRawTerminal \/ SetRawTerminalOutput \/ WatchTerminalSize \/ WrapStdin
  \/ SignalNotify \/ ActionExecReturn \/ RunDefer \/ RunFinish

\* ------------------------------------------------ stdin reader and scanner
\* The chunks one read of stdin can return.
Chunks == UNION {[1..n -> Bytes] : n \in 1..MaxChunk}

\* The callback execImpl gives to the escape reader, lines 289-303: what it
\* returns for the byte c that follows the escape character (true: the
\* session is aborted and both bytes are swallowed).
Handler_Never(c) == FALSE

Handler_Any(c) == TRUE

Handler(c) == c = Dot

\* The escape reader scans buf from scanner state lk up to the first byte for
\* which the callback returns true ('.' after the escape character at the
\* start of a line), or to the end of buf.  esc is the escape character.
\* out is what the scan delivers downstream: every byte but the escape
\* character held at the start of a line and the two bytes of a match.
RECURSIVE ScanTo(_, _, _)
ScanTo(esc, lk, buf) ==
  IF buf = <<>> THEN [look |-> lk, rest |-> <<>>, fire |-> FALSE, out |-> <<>>]
  ELSE LET b == Head(buf)
           after == IF b = NL THEN "line" ELSE "mid"
       IN IF lk = "line" /\ b = esc THEN ScanTo(esc, "esc", Tail(buf))
          ELSE IF lk = "esc" /\ Handler(b)
                 THEN [look |-> "mid", rest |-> Tail(buf), fire |-> TRUE, out |-> <<>>]
          ELSE LET r == ScanTo(esc, after, Tail(buf))
               IN [r EXCEPT !.out = (IF lk = "esc" THEN <<esc, b>> ELSE <<b>>) \o r.out]

\* The reader task resumes scanning buf; when the callback fires the task is
\* inside it, at its first statement.
Resume(buf) ==
  LET r == IF scanning THEN ScanTo(escapeChar[1], look, buf)
                       ELSE [look |-> look, rest |-> <<>>, fire |-> FALSE, out |-> buf]
  IN /\ look' = r.look
     /\ rbuf' = r.rest
     /\ cb' = IF r.fire THEN "outCleanup" ELSE "idle"
     /\ cbCalls' = IF r.fire THEN cbCalls + 1 ELSE cbCalls
     /\ verbatim' = (verbatim /\ ~r.fire /\ r.out = buf)

\* The session's stdin pump reads a chunk of local stdin through the escape
\* reader.  A read that was blocked when the session ended can still complete.
StdinRead ==
  /\ session.open /\ Alive
  /\ stdinSrc \in {"os", "caller"}
  /\ cb = "idle"
  /\ reads < MaxReads
  /\ \E chunk \in Chunks : Resume(chunk)
  /\ reads' = reads + 1
  /\ UNCHANGED <<libVars, sizeVars, inputVars, ioVars, pc, runVars, execVars, termVars, notices, envVars>>

\* Escape callback, line 294: outCleanup().
CbOutCleanup ==
  /\ cb = "outCleanup" /\ Alive
  /\ outMode' = "cooked"
  /\ outRestores' = outRestores + 1
  /\ cb' = "inCleanup"
  /\ UNCHANGED <<libVars, sizeVars, inputVars, ioVars, pc, runVars, execVars, inMode, inEntered, outEntered, watching,
                 watched, inRestores, sizeStops, setupErr, reads, rbuf, look, cbCalls, notices, verbatim, envVars>>

\* Escape callback, line 295: inCleanup().
CbInCleanup ==
  /\ cb = "inCleanup" /\ Alive
  /\ inMode' = "cooked"
  /\ inRestores' = inRestores + 1
  /\ cb' = "write"
  /\ UNCHANGED <<libVars, sizeVars, inputVars, ioVars, pc, runVars, execVars, outMode, inEntered, outEntered, watching,
                 watched, outRestores, sizeStops, setupErr, reads, rbuf, look, cbCalls, notices, verbatim, envVars>>

\* Escape callback, line 297: the notice is written to stderr, by the reader
\* task that runs the callback.
CbWrite_Stdout ==
  /\ cb = "write" /\ Alive
  /\ notices' = notices + 1
  /\ stdoutWriters' = stdoutWriters \cup {"reader"}
  /\ cb' = "cancelFn"
  /\ UNCHANGED <<libVars, sizeVars, inputVars, stderrWriters, pc, runVars, execVars, termVars, reads, rbuf, look,
                 cbCalls, verbatim, envVars>>

CbWrite ==
  /\ cb = "write" /\ Alive
  /\ notices' = notices + 1
  /\ stderrWriters' = stderrWriters \cup {"reader"}
  /\ cb' = "cancelFn"
  /\ UNCHANGED <<libVars, sizeVars, inputVars, stdoutWriters, pc, runVars, execVars, termVars, reads, rbuf, look,
                 cbCalls, verbatim, envVars>>

\* Escape callback, lines 298-299: cancelFn() and return true; the reader
\* goes on with the rest of the chunk.
CbCancel ==
  /\ cb = "cancelFn" /\ Alive
  /\ cancelled' = TRUE
  /\ cancelBy' = IF cancelBy = "none" THEN "escape" ELSE cancelBy
  /\ Resume(rbuf)
  /\ UNCHANGED <<libVars, sizeVars, inputVars, ioVars, pc, runVars, session, defers, execRes, closedBy, scanning,
                 termVars, reads, notices, envVars>>

\* ------------------------------------------------- signals and remote side
\* An interrupt or terminate signal reaches the process: signal.Notify puts
\* it in signalCh unless the channel is full; before signal.Notify the
\* default action ends the process.
OSSignal ==
  /\ Alive
  /\ signals < MaxSignals
  /\ signals' = signals + 1
  /\ IF notifyOn
       THEN /\ signalCh' = 1
            /\ pc' = pc
       ELSE /\ pc' = "killed"
            /\ signalCh' = signalCh
  /\ UNCHANGED <<libVars, sizeVars, inputVars, ioVars, runVars, execVars, termVars, readerVars, notifyOn, remote>>

\* The bridge goroutine, lines 309-313: a signal from signalCh cancels ctx.
Bridge_NoCancel ==
  /\ Alive
  /\ signalCh > 0
  /\ signalCh' = signalCh - 1
  /\ UNCHANGED <<libVars, sizeVars, inputVars, ioVars, pc, runVars, execVars, termVars, readerVars,
                 notifyOn, signals, remote>>

Bridge_Notice ==
  /\ Alive
  /\ signalCh > 0
  /\ signalCh' = signalCh - 1
  /\ cancelled' = TRUE
  /\ cancelBy' = IF cancelBy = "none" THEN "signal" ELSE cancelBy
  /\ notices' = notices + 1
  /\ UNCHANGED <<libVars, sizeVars, inputVars, ioVars, pc, runVars, session, defers, execRes, closedBy, scanning,
                 termVars, reads, rbuf, look, cb, cbCalls, verbatim, notifyOn, signals, remote>>

Bridge ==
  /\ Alive
  /\ signalCh > 0
  /\ signalCh' = signalCh - 1
  /\ cancelled' = TRUE
  /\ cancelBy' = IF cancelBy = "none" THEN "signal" ELSE cancelBy
  /\ UNCHANGED <<libVars, sizeVars, inputVars, ioVars, pc, runVars, session, defers, execRes, closedBy, scanning,
                 termVars, readerVars, notifyOn, signals, remote>>

\* The remote side ends the session with its one terminal frame.
RemoteFrame ==
  /\ pc = "ActionExec"
  /\ remote.kind = "none"
  /\ \E f \in {[kind |-> "exited", code |-> c] : c \in ExitCodes}
              \cup {[kind |-> "error", code |-> 0]} :
       remote' = f
  /\ UNCHANGED <<libVars, sizeVars, inputVars, ioVars, pc, runVars, execVars, termVars, readerVars,
                 notifyOn, signalCh, signals>>

\* The session's output pumps write a chunk the remote side sent to the local
\* stdout or stderr; no chunk follows the terminal frame.
PumpWrite ==
  /\ pc = "ActionExec"
  /\ remote = NoFrame
  /\ \E stream \in {"stdout", "stderr"} :
       /\ stdoutWriters' = IF stream = "stdout" THEN stdoutWriters \cup {"pump"}
                                                ELSE stdoutWriters
       /\ stderrWriters' = IF stream = "stderr" THEN stderrWriters \cup {"pump"}
                                                ELSE stderrWriters
  /\ UNCHANGED <<libVars, sizeVars, inputVars, pc, runVars, execVars, termVars, readerVars, envVars>>

readerNext == StdinRead \/ CbOutCleanup \/ CbInCleanup \/ CbWrite \/ CbCancel
envNext == OSSignal \/ Bridge \/ RemoteFrame

Next == mainNext \/ readerNext \/ envNext
Spec == Init /\ [][Next]_vars

\* The main task, the bridge goroutine and a running callback are scheduled
\* whenever they can take a step; nothing is assumed about the arrival of
\* stdin bytes, signals or remote frames.
Fairness ==
  /\ WF_vars(ActionExecReturn) /\ WF_vars(RunDefer) /\ WF_vars(RunFinish)
  /\ WF_vars(Bridge)
  /\ WF_vars(CbOutCleanup) /\ WF_vars(CbInCleanup) /\ WF_vars(CbWrite) /\ WF_vars(CbCancel)

\* Whether a session ends does not depend on how its target was resolved:
\* the behaviours checked for liveness start from the invocations that name
\* the target by job, group and task.
LiveInit ==
  /\ Init
  /\ job = "web" /\ group = "api" /\ allocation = Empty /\ taskFlag = "server"
LiveSpec == LiveInit /\ [][Next]_vars /\ Fairness

\* ------------------------------------------- the escape reader on its own
\* The inputs the escape reader is applied to.
Inputs == UNION {[1..n -> Bytes] : n \in 1..MaxInput}

\* One Read through the escape reader: buf is scanned to its end, the callback
\* is invoked at every match.
RECURSIVE ScanAll(_, _, _)
ScanAll(esc, lk, buf) ==
  LET r == ScanTo(esc, lk, buf)
  IN IF r.fire
       THEN LET q == ScanAll(esc, r.look, r.rest)
            IN [look |-> q.look, out |-> r.out \o q.out, aborts |-> q.aborts + 1]
       ELSE [look |-> r.look, out |-> r.out, aborts |-> 0]

\* The next n bytes of the input are read through the escape reader.
ScanFeed ==
  /\ \E n \in 1..MaxChunk :
       /\ scanPos + n <= Len(scanInput)
       /\ LET r == ScanAll(scanEsc, scanLook, SubSeq(scanInput, scanPos + 1, scanPos + n))
          IN /\ scanLook' = r.look
             /\ scanOut' = scanOut \o r.out
             /\ scanAborts' = scanAborts + r.aborts
       /\ scanPos' = scanPos + n
       /\ scanCuts' = Append(scanCuts, n)
  /\ UNCHANGED <<progVars, sizeVars, actVars, scanEsc, scanInput>>

\* The program before Run, for one invocation.
OneRun ==
  /\ RunInit /\ ~stdinGiven
  /\ job = "web" /\ group = "api" /\ allocation = Empty /\ taskFlag = "server"
  /\ parseOK /\ args = <<"ping">> /\ stdinOpt /\ ttyOpt /\ eFlag = <<"~">>

\* The escape reader is made with an escape character and an input stream.
ScanInputs ==
  /\ scanEsc \in {"~", Dot}
  /\ scanInput \in Inputs
  /\ scanPos = 0 /\ scanCuts = <<>>
  /\ scanLook = "line" /\ scanOut = <<>> /\ scanAborts = 0

ScanInit == OneRun /\ ScanInputs /\ ActIdle
ScanNext == ScanFeed
ScanSpec == ScanInit /\ [][ScanNext]_vars

\* --------------------------------------------- structs.Action: Copy, Equal
ActionNames == {"ping", "pong"}
ActionCommands == {"echo", "date"}
ArgValues == {"x", "y"}
ArgSeqs == UNION {[1..n -> ArgValues] : n \in 0..MaxArgs}

\* The elements of the Args of the Action at address p (a nil slice has none).
ArgsOf(objs, arrs, p) == IF objs[p].Args = NilPtr THEN <<>> ELSE arrs[objs[p].Args]

\* slices.Equal: same length and equal elements; nil and empty are equal.
SlicesEqual(s, t) == Len(s) = Len(t) /\ \A i \in 1..Len(s) : s[i] = t[i]

\* (*Action).Equal, lines 39-49, on the heap objs, arrs.
Equal(objs, arrs, a, o) ==
  IF a = o THEN TRUE
  ELSE IF a = NilPtr \/ o = NilPtr THEN FALSE
  ELSE /\ objs[a].Name = objs[o].Name
       /\ objs[a].Command = objs[o].Command
       /\ SlicesEqual(ArgsOf(objs, arrs, a), ArgsOf(objs, arrs, o))

\* (*Action).Copy, lines 29-37: the heap and the pointer after a.Copy().
\* slices.Clone gives a nil slice for a nil one, a new backing array otherwise.
Copy_Shallow(objs, arrs, a) ==
  IF a = NilPtr THEN [objs |-> objs, arrs |-> arrs, ptr |-> NilPtr]
  ELSE [objs |-> Append(objs, objs[a]), arrs |-> arrs, ptr |-> Len(objs) + 1]

Copy(objs, arrs, a) ==
  IF a = NilPtr THEN [objs |-> objs, arrs |-> arrs, ptr |-> NilPtr]
  ELSE IF objs[a].Args = NilPtr
    THEN [objs |-> Append(objs, objs[a]), arrs |-> arrs, ptr |-> Len(objs) + 1]
  ELSE [objs |-> Append(objs, [objs[a] EXCEPT !.Args = Len(arrs) + 1]),
        arrs |-> Append(arrs, arrs[objs[a].Args]),
        ptr |-> Len(objs) + 1]

\* Two Actions on the heap, each with its own Args, and two pointers: actA is
\* nil or the first Action, actB is nil, the first or the second.
ActValues ==
  /\ \E n1, n2 \in ActionNames, c1, c2 \in ActionCommands, s1, s2 \in ArgSeqs,
        nil1, nil2 \in BOOLEAN :
       /\ nil1 => s1 = <<>>
       /\ nil2 => s2 = <<>>
       /\ actObjs = << [Name |-> n1, Command |-> c1, Args |-> IF nil1 THEN NilPtr ELSE 1],
                       [Name |-> n2, Command |-> c2, Args |-> IF nil2 THEN NilPtr ELSE 2] >>
       /\ actArrs = <<s1, s2>>
       /\ actOrig = s1
  /\ actA \in {NilPtr, 1}
  /\ actB \in {NilPtr, 1, 2}
  /\ actCopy = NotCopied
  /\ actMutated = FALSE

\* actA.Copy() is called.
ActCopy ==
  /\ actCopy = NotCopied
  /\ LET r == Copy(actObjs, actArrs, actA)
     IN /\ actObjs' = r.objs
        /\ actArrs' = r.arrs
        /\ actCopy' = r.ptr
  /\ UNCHANGED <<progVars, sizeVars, scanVars, actA, actB, actOrig, actMutated>>

\* An element of the copy's Args is assigned a new value.
ActMutate ==
  /\ actCopy \notin {NotCopied, NilPtr}
  /\ ~actMutated
  /\ actObjs[actCopy].Args # NilPtr
  /\ \E i \in 1..Len(actArrs[actObjs[actCopy].Args]) :
       actArrs' = [actArrs EXCEPT ![actObjs[actCopy].Args][i] = "changed"]
  /\ actMutated' = TRUE
  /\ UNCHANGED <<progVars, sizeVars, scanVars, actObjs, actA, actB, actCopy, actOrig>>

ActionInit == OneRun /\ ScanIdle /\ ActValues
ActionNext == ActCopy \/ ActMutate
ActionSpec == ActionInit /\ [][ActionNext]_vars

\* ----------------------------------------------- resize watcher and sizeCh
\* The terminal's size changes; a registered watcher is notified.
TerminalResize ==
  /\ Alive
  /\ termSize <= MaxResizes
  /\ termSize' = termSize + 1
  /\ sizePending' = (sizePending \/ watching)
  /\ UNCHANGED <<libVars, progVars, sizeCh, sizeSeen, sizeDrops>>

\* The watcher handles a notification: it reads the terminal's size and
\* tries to send it.  A stopped watcher delivers nothing.
WatcherSend ==
  /\ Alive /\ watching /\ sizePending
  /\ sizePending' = FALSE
  /\ TrySend(termSize)
  /\ UNCHANGED <<libVars, progVars, termSize, sizeSeen>>

\* ActionExec takes a size from sizeCh and sends it to the remote side as a
\* resize frame.
SizeForward ==
  /\ pc = "ActionExec"
  /\ sizeCh # <<>>
  /\ sizeSeen' = Head(sizeCh)
  /\ sizeCh' = Tail(sizeCh)
  /\ UNCHANGED <<libVars, progVars, termSize, sizePending, sizeDrops>>

\* The session with the traffic of its output streams: the output pumps
\* write remote chunks while the session runs.
ioNext == PumpWrite
IoNext == Next \/ ioNext
IoSpec == LiveInit /\ [][IoNext]_vars

\* The session with the terminal being resized.  The escape reader has no
\* part in what happens to sizeCh: the behaviours start from the invocations
\* that name the target by job, group and task, with and without -i and -t,
\* a tty session having no escape character, l.Stdin set by the caller or not.
sizeNext == TerminalResize \/ WatcherSend \/ SizeForward
SizeInit ==
  /\ RunInit /\ ScanIdle /\ ActIdle
  /\ job = "web" /\ group = "api" /\ allocation = Empty /\ taskFlag = "server"
  /\ parseOK /\ args = <<"ping">>
  /\ eFlag \in {None, Empty, <<"~">>}
  /\ ttyOpt => eFlag \in {None, Empty}
\* No escape reader is made in these behaviours, so its callback has no step.
SizeNext == mainNext \/ StdinRead \/ envNext \/ sizeNext
SizeSpec == SizeInit /\ [][SizeNext]_vars

\* ------------------------------------------------------------ definitions
\* execImpl has returned: its result is decided and every deferred call ran.
ExecImplReturned == execRes.err # "unset" /\ defers = <<>>

\* msg was printed with l.Ui.Error.
Printed(msg) == \E i \in 1..Len(uiErr) : uiErr[i] = msg

\* Deferred releases that have run.
DeferredDone(d) ==
  IF execRes.err # "unset" /\ (\A i \in 1..Len(defers) : defers[i] # d) THEN 1 ELSE 0

\* Escape-callback invocations that have executed their outCleanup(),
\* inCleanup() and stderr.Write statements.
CbOutDone == cbCalls - (IF cb = "outCleanup" THEN 1 ELSE 0)
CbInDone == cbCalls - (IF cb \in {"outCleanup", "inCleanup"} THEN 1 ELSE 0)
CbWriteDone == cbCalls - (IF cb \in {"outCleanup", "inCleanup", "write"} THEN 1 ELSE 0)

\* Flags that pass Run's validation.
ValidFlags == ValidateFlags = "ok"

\* ------------------------------------------------------------------ claims

\* C1: once execImpl has returned, the restore operation of every terminal
\* whose raw mode was entered has been invoked and the terminal is back in its
\* saved mode; so it is whenever Run has printed "failed to exec into task".
C1_RestoredBeforeReturn ==
  (ExecImplReturned \/ Printed(ErrExec)) =>
     /\ inEntered => (inRestores >= 1 /\ inMode = "cooked")
     /\ outEntered => (outRestores >= 1 /\ outMode = "cooked")

\* C1 witness: a tty session that entered raw mode on both devices ended with
\* a remote Error and Run printed the message.
C1_Witness ==
  /\ pc = "done" /\ inEntered /\ outEntered
  /\ execRes.err = "remote" /\ Printed(ErrExec)

\* C2 as stated: each release operation runs exactly once per session, never
\* twice.
C2_ExactlyOnce ==
  /\ inRestores <= 1 /\ outRestores <= 1 /\ sizeStops <= 1
  /\ ExecImplReturned =>
       /\ inEntered => inRestores = 1
       /\ outEntered => outRestores = 1
       /\ watched => sizeStops = 1

\* C2 amended: the deferred clean-up runs each acquired release exactly once;
\* the watcher's release runs only there, the input and output restores run
\* once more for every invocation of the escape callback.
C2_OncePlusCallbacks ==
  /\ sizeStops = DeferredDone("sizeCleanup") * (IF watched THEN 1 ELSE 0)
  /\ outRestores = DeferredDone("outCleanup") * (IF outEntered THEN 1 ELSE 0) + CbOutDone
  /\ inRestores = DeferredDone("inCleanup") * (IF inEntered THEN 1 ELSE 0) + CbInDone
  /\ ExecImplReturned =>
       /\ inEntered => inRestores >= 1
       /\ outEntered => outRestores >= 1
       /\ watched => sizeStops = 1

\* C2 witness: an escape abort after which execImpl returned: both restores
\* ran twice, the watcher's release once.
C2_Witness ==
  /\ ExecImplReturned /\ cbCalls = 1 /\ cb = "idle"
  /\ inRestores = 2 /\ outRestores = 2 /\ sizeStops = 1

\* C3 as stated: no release runs while a resource acquired after it is still
\* held (watcher after output raw mode after input raw mode).
C3_StrictReverse ==
  [][ /\ (outRestores' > outRestores => ~SizeHeld)
      /\ (inRestores' > inRestores => (~SizeHeld /\ ~OutHeld)) ]_vars

\* C3 amended: the deferred releases run in strict reverse order of
\* acquisition on every exit path, and no restore of the input runs while the
\* output is still held; only the escape callback restores output and input
\* while the watcher is still registered.
C3_DeferredReverse ==
  [][ /\ (inRestores' > inRestores => ~OutHeld)
      /\ (defers' # defers /\ outRestores' > outRestores => ~SizeHeld)
      /\ (defers' # defers /\ inRestores' > inRestores => ~SizeHeld) ]_vars

\* C3 witness: the escape callback has restored the output while the watcher
\* is registered, and the deferred releases then ran to the end.
C3_Witness ==
  /\ ExecImplReturned /\ watched /\ cbCalls >= 1
  /\ sizeStops = 1 /\ outRestores >= 2 /\ inRestores >= 2

\* C4: with -t and without -i, Run never gets past validation: no session is
\* opened, no terminal mode is changed, and Run returns 1 with one validation
\* error.
C4_TtyRequiresStdin ==
  (ttyOpt /\ ~stdinOpt) =>
     /\ pc \in {"Run", "done", "killed"}
     /\ ~session.open /\ execRes.err = "unset"
     /\ ~inEntered /\ ~outEntered /\ ~watched
     /\ inMode = "cooked" /\ outMode = "cooked"
     /\ pc = "done" => (ret = <<1>> /\ Len(uiErr) = 1 /\ uiErr[1] \in ValidationErrors)

\* C4 witness: Run returned 1 with the -i message.
C4_Witness ==
  /\ ttyOpt /\ ~stdinOpt /\ pc = "done"
  /\ ret = <<1>> /\ uiErr = <<ErrTtyNoStdin>>

\* C5 as stated: escaping is disabled only by the literal value none, a value
\* longer than one character other than none is rejected, and every other
\* accepted value makes a tty session scan for that one character.
C5_EscapeFlag ==
  /\ (Len(eFlag) > 1 /\ eFlag # None) =>
        /\ pc \in {"Run", "done", "killed"} /\ ~session.open
        /\ pc = "done" => ret = <<1>>
  /\ (session.open /\ ttyOpt) => (~scanning <=> eFlag = None)
  /\ (session.open /\ ttyOpt /\ eFlag # None) =>
        (scanning /\ Len(eFlag) = 1 /\ escapeChar = eFlag)

\* The target of the end-to-end example: the one allocation of group api of
\* job web, with its single task.
ApiAllocID == <<"a", "b", "1", "2">>
JobGroupInvocation == ValidFlags /\ job = "web" /\ group = "api" /\ allocation = Empty

\* C6 as stated: with an action name, -job and -group and neither -allocation
\* nor -task, the session is opened against the job's one allocation and its
\* single task.
C6_InferredTask ==
  (JobGroupInvocation /\ taskFlag = "" /\ pc = "done" /\ ~Printed(ErrClient)) =>
     (session.open /\ session.alloc = ApiAllocID /\ session.task = "server")

\* C6 amended: the task is never inferred when no allocation is given: without
\* -task Run returns 1 and opens nothing; with -task naming the allocation's
\* task execImpl is called for that allocation and task, the session it
\* opens has that target, and a remote exit 0 makes Run return 0.
C6_JobGroupTask ==
  /\ (JobGroupInvocation /\ taskFlag = "" /\ pc = "done") =>
        (ret = <<1>> /\ ~session.open /\ uiErr \in {<<ErrClient>>, <<ErrNoTask>>})
  /\ (JobGroupInvocation /\ taskFlag = "server" /\ execRes.err # "unset") =>
        (alloc.ID = ApiAllocID /\ task = "server")
  /\ (JobGroupInvocation /\ taskFlag = "server" /\ session.open) =>
        (session.alloc = ApiAllocID /\ session.task = "server" /\ session.action = args[1])
  /\ (JobGroupInvocation /\ taskFlag = "server" /\ pc = "done" /\ uiErr = <<>>) =>
        session.open
  /\ (JobGroupInvocation /\ taskFlag = "server" /\ pc = "done"
        /\ closedBy = "remote" /\ remote = [kind |-> "exited", code |-> 0]) =>
        ret = <<0>>

\* C6 witness: -job web -group api -task server, the remote exited 0 and Run
\* returned 0.
C6_Witness ==
  /\ JobGroupInvocation /\ taskFlag = "server" /\ pc = "done"
  /\ session.open /\ session.alloc = ApiAllocID /\ session.task = "server"
  /\ closedBy = "remote" /\ remote = [kind |-> "exited", code |-> 0] /\ ret = <<0>>

\* C7 as stated: a not-a-terminal failure of the terminal set-up is not
\* fatal: the session still opens and Run does not fail.
C7_Degrades ==
  (ttyOpt /\ setupErr = "notatty" /\ pc = "done") => (session.open /\ ~Printed(ErrExec))

\* C7 amended: a failure of the terminal set-up, not-a-terminal included, is
\* fatal: execImpl returns -1 and the error, no session is opened, what was
\* acquired is released, and Run prints the error and returns 1.
C7_SetupFatal ==
  setupErr # "none" =>
     /\ ttyOpt /\ ~session.open /\ ~watched
     /\ execRes = [code |-> SetupFailCode, err |-> "setup"]
     /\ pc = "done" => (ret = <<1>> /\ uiErr = <<ErrExec>> /\ ~InHeld /\ ~OutHeld
                        /\ inMode = "cooked" /\ outMode = "cooked")

\* C7 witness: stdin was a terminal, stdout was not: Run returned 1 after the
\* input was restored.
C7_Witness ==
  /\ setupErr = "notatty" /\ pc = "done" /\ inEntered /\ ~outEntered
  /\ inRestores = 1 /\ ret = <<1>>

\* C8: Run returns the session's code unchanged when the session returns no
\* error (so the remote's exit code when the remote ended the session), and 1
\* whenever the session, validation, resolution or set-up returns an error.
C8_ExitCode ==
  pc = "done" =>
     /\ execRes.err = "nil" => (ret = <<execRes.code>> /\ uiErr = <<>>)
     /\ execRes.err # "nil" => (ret = <<1>> /\ Len(uiErr) = 1)
     /\ (closedBy = "remote" /\ remote.kind = "exited") => ret = <<remote.code>>

\* C8 witness: the remote command exited 2 and Run returned 2.
C8_Witness ==
  /\ pc = "done" /\ closedBy = "remote"
  /\ remote = [kind |-> "exited", code |-> 2] /\ ret = <<2>>

\* C9: once ctx is cancelled during an active session, or a signal is waiting
\* in signalCh for the bridge, or the escape callback is running, execImpl
\* eventually returns with every deferred release run, whether or not further
\* stdin bytes or remote frames arrive.
C9_CancelReturns ==
  ((cancelled \/ signalCh > 0 \/ cb # "idle") /\ pc = "ActionExec")
     ~> (ExecImplReturned /\ ~InHeld /\ ~OutHeld /\ ~SizeHeld)

\* C9 witness: ctx was cancelled by the bridge while ActionExec was running,
\* no remote frame arrived, and execImpl returned.
C9_Witness ==
  /\ ExecImplReturned /\ closedBy = "signal" /\ remote = NoFrame /\ session.open

\* C10 as stated: the notice is on stderr exactly when the escape sequence
\* closed the session, and then once.
C10_NoticeIffEscape ==
  (pc = "done" /\ session.open) =>
     /\ notices >= 1 <=> closedBy = "escape"
     /\ notices <= 1

\* C10 amended: only the escape callback writes the notice, once per
\* invocation; a session closed by the escape sequence has it, but it is also
\* written when the callback runs although a signal or the remote completion
\* ended the session.
C10_NoticePerCallback ==
  /\ notices = CbWriteDone
  /\ cbCalls > 0 => (session.open /\ session.tty /\ scanning)
  /\ closedBy = "escape" => notices >= 1

\* C10 witness: the session was closed by the escape sequence and the notice
\* was written once.
C10_Witness ==
  /\ pc = "done" /\ closedBy = "escape" /\ cbCalls = 1 /\ notices = 1

\* C11 as stated: the signal bridge is registered while the session runs and
\* is gone once execImpl has returned: no interrupt or terminate signal is
\* captured any more and nothing is left in signalCh for a bridge task.
C11_BridgeScoped ==
  /\ (session.open /\ pc = "ActionExec") => notifyOn
  /\ ExecImplReturned => (~notifyOn /\ signalCh = 0)

\* The session's stderr pump may still write: ActionExec is running and the
\* remote side has not sent its terminal frame.
StderrPumpActive == pc = "ActionExec" /\ remote = NoFrame

\* C12 as stated: each local output stream has at most one task writing to
\* it, and nothing but the stderr pump has written to stderr while that pump
\* may still write.
C12_OneWriterPerStream ==
  /\ Cardinality(stdoutWriters) <= 1
  /\ Cardinality(stderrWriters) <= 1
  /\ StderrPumpActive => stderrWriters \subseteq {"pump"}

\* C12 amended: stdout is written by the output pump only; stderr is written
\* by the output pump and, when the escape callback runs, by the stdin reader
\* task that runs it, also while the pump may still write; no other task
\* writes to either stream, and nothing is written before the session opens.
C12_PumpAndCallback ==
  /\ stdoutWriters \subseteq {"pump"}
  /\ stderrWriters \subseteq {"pump", "reader"}
  /\ ("reader" \in stderrWriters) <=> (CbWriteDone > 0)
  /\ (stdoutWriters # {} \/ stderrWriters # {}) => session.open

\* C12 witness: the callback's notice was written to stderr by the reader
\* task while the stderr pump, which has written too, may still write.
C12_Witness ==
  /\ StderrPumpActive /\ ~cancelled
  /\ stderrWriters = {"pump", "reader"} /\ stdoutWriters = {"pump"}

\* The bytes of the input read so far, and the escape character the reader
\* holds back when the last byte read was the escape character at the start
\* of a line.
ScanFed == SubSeq(scanInput, 1, scanPos)
ScanHeld == IF scanLook = "esc" THEN <<scanEsc>> ELSE <<>>

\* Byte i of s is at the start of a line: the first byte of the stream or the
\* byte after a newline.
LineStart(s, i) == i = 1 \/ s[i - 1] = NL

\* A complete escape sequence starts at byte i of s: the escape character e
\* at the start of a line, followed by '.'.
MatchAt(s, e, i) == i < Len(s) /\ s[i] = e /\ s[i + 1] = Dot /\ LineStart(s, i)

\* s without the two bytes at i and i + 1.
Without(s, i) == SubSeq(s, 1, i - 1) \o SubSeq(s, i + 2, Len(s))

\* C13: with escape character '~', when the bytes read hold one escape
\* sequence ('~' at the start of a line, then '.'), the callback has been
\* invoked exactly once and every byte but the two of the sequence has been
\* delivered downstream, in order, however the bytes were cut into reads.
C13_EscapeSwallowed ==
  \A i \in 1..scanPos :
     (/\ scanEsc = "~"
      /\ MatchAt(ScanFed, "~", i)
      /\ \A j \in 1..scanPos : MatchAt(ScanFed, "~", j) => j = i)
     => /\ scanAborts = 1
        /\ scanOut \o ScanHeld = Without(ScanFed, i)

\* C13 witness: newline, '~', '.' read in two reads that separate '~' from
\* '.': one invocation, only the newline went downstream.
C13_Witness ==
  /\ scanEsc = "~" /\ scanInput = <<NL, "~", Dot>> /\ scanCuts = <<2, 1>>
  /\ scanAborts = 1 /\ scanOut = <<NL>>

\* C14: when the bytes read hold no escape sequence (the escape character is
\* never at the start of a line, or is followed there by a byte other than
\* '.'), the callback has aborted nothing and the bytes delivered downstream,
\* with an escape character still held back at the end, are the bytes read,
\* in order.
C14_NoMatchVerbatim ==
  (\A i \in 1..scanPos : ~MatchAt(ScanFed, scanEsc, i))
     => /\ scanAborts = 0
        /\ scanOut \o ScanHeld = ScanFed

\* C14 witness: '~' '.' in the middle of a line and '~' followed by '~' at
\* the start of one went downstream unchanged.
C14_Witness ==
  /\ scanEsc = "~" /\ scanPos = Len(scanInput) /\ scanAborts = 0
  /\ scanInput \in {<<Dot, "~", Dot>>, <<"~", "~", Dot>>} /\ scanOut = scanInput

\* The watcher has handled every change of size and ActionExec has taken
\* everything out of sizeCh: without another resize the consumer gets nothing
\* more.
SizeQuiescent == pc = "ActionExec" /\ watching /\ ~sizePending /\ sizeCh = <<>>

\* C15 as stated: the watcher never blocks, and the consumer ends up with the
\* most recent size of the terminal, not with a stale intermediate one.
C15_LatestObserved ==
  /\ (Alive /\ watching /\ sizePending) => ENABLED WatcherSend
  /\ SizeQuiescent => sizeSeen = termSize

\* C15 amended: the watcher never blocks and sizeCh never holds more than its
\* capacity; sizes reach the consumer in order and the first one, emitted at
\* registration, always does; a size that arrives while sizeCh is full is
\* dropped, so the consumer ends up with the most recent size only when
\* nothing was dropped, and otherwise may be left with an older one.
C15_DropWhenFull ==
  /\ (Alive /\ watching /\ sizePending) => ENABLED WatcherSend
  /\ Len(sizeCh) <= SizeChCap
  /\ sizeSeen <= termSize
  /\ \A i \in 1..Len(sizeCh) : sizeSeen < sizeCh[i] /\ sizeCh[i] <= termSize
  /\ (pc = "ActionExec" /\ watched /\ sizeCh = <<>>) => sizeSeen >= 1
  /\ SizeQuiescent => (sizeSeen = termSize \/ sizeDrops > 0)
  /\ ~watched => (sizeCh = <<>> /\ sizeSeen = 0 /\ sizeDrops = 0)

\* C15 witness: the terminal was resized while the first size was still in
\* sizeCh; the new size was dropped and the consumer is left with the first.
C15_Witness ==
  /\ SizeQuiescent /\ termSize = 2 /\ sizeSeen = 1 /\ sizeDrops = 1

\* The allocations the -allocation value matches, and Run's choice among
\* them being over: the look-ups answered and Run is past line 209.
Matches == PrefixList(allocation)
PrefixResolved ==
  /\ ValidFlags /\ allocation # Empty
  /\ pc \notin {"Run", "resolve", "killed"}
  /\ ~Printed(ErrClient) /\ ~(pc = "done" /\ alloc = NoAlloc /\ Printed(ErrQueryAlloc))

\* C16: with -allocation given and the look-ups answering, no match makes Run
\* print the not-found error and return 1, several matches make it print the
\* ambiguous-prefix error with the matching allocations listed and return 1,
\* both without a session; one match makes that allocation the target of
\* everything that follows.
C16_PrefixResolution ==
  PrefixResolved =>
     /\ Cardinality(Matches) = 0 =>
          (pc = "done" /\ ret = <<1>> /\ uiErr = <<ErrNoAllocFound>> /\ listed = {}
           /\ ~session.open /\ execRes.err = "unset")
     /\ Cardinality(Matches) > 1 =>
          (pc = "done" /\ ret = <<1>> /\ uiErr = <<ErrMultiAlloc>>
           /\ listed = {a.ID : a \in Matches}
           /\ ~session.open /\ execRes.err = "unset")
     /\ Cardinality(Matches) = 1 =>
          (/\ Matches = {alloc} /\ listed = {}
           /\ ~Printed(ErrNoAllocFound) /\ ~Printed(ErrMultiAlloc)
           /\ session.open => session.alloc = alloc.ID)

\* C16 witness: -allocation ab matches two allocations: Run returned 1 with
\* both listed.
C16_Witness ==
  /\ allocation = <<"a", "b">> /\ pc = "done" /\ ret = <<1>>
  /\ uiErr = <<ErrMultiAlloc>>
  /\ listed = {<<"a", "b", "1", "2">>, <<"a", "b", "7", "8">>}

\* Equal and the elements of Args on the current heap.
Eq(a, o) == Equal(actObjs, actArrs, a, o)
Args(p) == ArgsOf(actObjs, actArrs, p)

\* C17: the copy of an Action is Equal to it, both ways, until it is changed
\* (the copy of nil is nil and nil equals nil) and is a new Action with its
\* own Args; Equal is symmetric and holds exactly when both are nil or both
\* have the same Name, Command and elements of Args; assigning an element of
\* the copy's Args leaves the elements of the original's Args as they were.
C17_CopyEqual ==
  /\ (actCopy # NotCopied /\ ~actMutated) => (Eq(actCopy, actA) /\ Eq(actA, actCopy))
  /\ (actCopy # NotCopied) =>
        IF actA = NilPtr THEN actCopy = NilPtr
        ELSE /\ actCopy \notin {NilPtr, actA, actB}
             /\ actObjs[actCopy].Name = actObjs[actA].Name
             /\ actObjs[actCopy].Command = actObjs[actA].Command
  /\ Eq(NilPtr, NilPtr)
  /\ Eq(actA, actB) = Eq(actB, actA)
  /\ Eq(actA, actB) <=>
        \/ actA = NilPtr /\ actB = NilPtr
        \/ /\ actA # NilPtr /\ actB # NilPtr
           /\ actObjs[actA].Name = actObjs[actB].Name
           /\ actObjs[actA].Command = actObjs[actB].Command
           /\ Args(actA) = Args(actB)
  /\ actA # NilPtr => Args(actA) = actOrig

\* C17 witness: an Action with two arguments was copied, an element of the
\* copy's Args was assigned: the copy is no longer Equal to the original,
\* whose Args are as before.
C17_Witness ==
  /\ actMutated /\ actA # NilPtr /\ Len(actOrig) = 2
  /\ Args(actA) = actOrig /\ Args(actCopy) # actOrig /\ ~Eq(actCopy, actA)

\* Run has chosen the allocation (line 216) of an invocation that passed
\* validation.
AllocChosen == ValidFlags /\ alloc # NoAlloc

\* C18: a session is opened against a task of the chosen allocation: the one
\* -task names when it is given, and a task that is not in the allocation
\* makes Run return 1 without a session; without -task the allocation's task
\* when it has exactly one, and Run returns 1 without a session when it has
\* several.  Run returning without any error printed has opened the session.
C18_TaskResolution ==
  /\ session.open =>
       /\ AllocChosen /\ session.alloc = alloc.ID /\ session.task \in alloc.Tasks
       /\ taskFlag # "" => session.task = taskFlag
       /\ taskFlag = "" => (allocation # Empty /\ alloc.Tasks = {session.task})
  /\ (AllocChosen /\ pc = "done" /\ taskFlag # "" /\ taskFlag \notin alloc.Tasks) =>
       (ret = <<1>> /\ ~session.open /\ execRes.err = "unset"
        /\ uiErr \in {<<ErrTask>>, <<ErrQueryAlloc>>})
  /\ (AllocChosen /\ pc = "done" /\ taskFlag = "" /\ Cardinality(alloc.Tasks) # 1) =>
       (ret = <<1>> /\ ~session.open /\ execRes.err = "unset"
        /\ uiErr \in {<<ErrTask>>, <<ErrQueryAlloc>>})
  /\ (AllocChosen /\ pc = "done" /\ uiErr = <<>>) => session.open

\* C18 witness: -allocation ab12 without -task: the session was opened
\* against the allocation's single task and Run returned.
C18_Witness ==
  /\ allocation = <<"a", "b", "1", "2">> /\ taskFlag = "" /\ pc = "done"
  /\ session.open /\ session.task = "server" /\ session.alloc = allocation
  /\ uiErr = <<>>

\* C19: with -i=false the session's stdin is an empty reader, whatever
\* l.Stdin the caller had set: nothing is read for the session, so no byte
\* of the caller's or the process's stdin reaches the remote side and the
\* escape reader sees none.
C19_NoStdinForwarded ==
  ~stdinOpt =>
     /\ session.open => stdinSrc = "empty"
     /\ stdinSrc \notin {"os"}
     /\ reads = 0 /\ rbuf = <<>> /\ cbCalls = 0 /\ cancelBy # "escape"

\* C19 witness: the caller had set l.Stdin, -i=false: the session ran to the
\* remote exit on the empty reader.
C19_Witness ==
  /\ ~stdinOpt /\ stdinGiven /\ session.open /\ stdinSrc = "empty"
  /\ pc = "done" /\ closedBy = "remote" /\ ret = <<0>>

\* C20: without -t execImpl never enters raw mode, never registers the resize
\* watcher and never wraps stdin: every read goes to ActionExec unchanged,
\* the escape callback never runs, the session is never cancelled by it, and
\* no size is ever put in sizeCh or sent, however the terminal is resized.
\* With -t and the escape character disabled stdin is not wrapped either.
C20_TerminalOnlyForTty ==
  /\ ~ttyOpt =>
       /\ ~inEntered /\ ~outEntered /\ inMode = "cooked" /\ outMode = "cooked"
       /\ ~watching /\ ~watched /\ ~sizePending
       /\ sizeCh = <<>> /\ sizeSeen = 0 /\ sizeDrops = 0
       /\ ~scanning /\ verbatim /\ look = "line"
       /\ cbCalls = 0 /\ notices = 0 /\ cancelBy # "escape"
  /\ (ttyOpt /\ NormalizeEscape(eFlag) = Empty) =>
       /\ ~scanning /\ verbatim /\ look = "line"
       /\ cbCalls = 0 /\ notices = 0 /\ cancelBy # "escape"

\* C20 witness: a session without -t and with escape character '~' read
\* stdin while the terminal was resized, and ended with the remote exit.
C20_Witness ==
  /\ ~ttyOpt /\ escapeChar = <<"~">> /\ session.open /\ reads >= 2 /\ termSize >= 2
  /\ pc = "done" /\ closedBy = "remote" /\ ret = <<0>>

\* C20 witness of the second case: a session with -t and -e none entered raw
\* mode and registered the watcher, and read stdin unwrapped.
C20_WitnessTty ==
  /\ ttyOpt /\ eFlag = None /\ session.open /\ inEntered /\ watched /\ reads >= 2
  /\ pc = "done" /\ closedBy = "remote"

=============================================================================
